---- MODULE Spec2Model ----
(***************************************************************************)
(* Model of simulador/modelo.py: simular(df, config), the cycle-by-cycle   *)
(* battery dispatch scheduler, and its nested solve_lp(t0, t1, soc0).      *)
(*                                                                         *)
(* Numbers.  The program computes in floating point.  The model computes   *)
(* in integers: Unit per MWh for energies and Unit per full battery for    *)
(* states of charge, with Unit = 361 * 10^6, so that the defaults          *)
(* soc_full_epsilon = 1e-4 and excess_threshold_mwh = 1e-6 are the         *)
(* integers Unit / 10^4 and Unit / 10^6.  Input energies are multiples of  *)
(* Quantum (a quarter MWh), battery_mwh is a whole number of MWh and an    *)
(* efficiency is the fraction num/den, 1/1 or 19/20 (0.95; 361 = 19 * 19), *)
(* so every product and quotient the program forms is exact.               *)
(*                                                                         *)
(* Indices are the program's: series are functions on 0..n_total-1, the    *)
(* soc buffer is a function on 0..n_total.                                 *)
(***************************************************************************)
EXTENDS Integers, Sequences, FiniteSets, TLC

VARIABLES
    config,          \* the configuration dictionary (the keys simular reads)
    load, pv, price, \* input columns of df
    cand,            \* candidate indices (starts of excess blocks), 0-based
    soc,             \* soc buffer, length n_total + 1
    batt_charge, batt_discharge, grid_import, curtail,  \* output buffers
    start_ptr, t_start, current, cand_idx, t_end, steps, \* scheduler locals
    ch, dis,         \* decisions returned by the last solve_lp call
    soc_at_end, has_space,
    res,             \* the returned DataFrame's columns (df_res)
    pc,              \* position in simular
    lp_success,      \* res.success of the last linprog call
    nsolves,         \* history: number of solve_lp invocations so far
    written,         \* history: indices of the soc buffer assigned so far
    soc_carried,     \* history: soc the battery was left at by the last phase
    cyc_start,       \* history: start index of the cycle being built or applied
    cycle_solves,    \* history: solve_lp invocations made in that cycle
    writes,          \* history: how often each output row has been written
    windows,         \* history: the accepted windows <<start, end>>
    answers,         \* the solver's answer to every problem it was given
    run,             \* 1 in the first call of simular, 2 in a repeated call
    res1             \* the frame returned by the first call

vars == <<config, load, pv, price, cand, soc, batt_charge, batt_discharge,
          grid_import, curtail, start_ptr, t_start, current, cand_idx, t_end,
          steps, ch, dis, soc_at_end, has_space, res, pc, lp_success,
          nsolves, written, soc_carried, cyc_start, cycle_solves, writes,
          windows, answers, run, res1>>

----------------------------------------------------------------------------
(* Units and input families *)

Unit == 361 * 1000 * 1000
Quantum == Unit \div 4

\* Largest number of repetitions of a block in an input series.
MaxRep == 13

Min2(a, b) == IF a <= b THEN a ELSE b
Max2(a, b) == IF a >= b THEN a ELSE b

\* One timestep of input: consumption, PV production, price (EUR/MWh).
Surplus      == [load |-> 2 * Quantum, pv |-> 6 * Quantum, price |-> 5]
SmallSurplus == [load |-> 0,           pv |-> Quantum,     price |-> 5]
Deficit      == [load |-> 4 * Quantum, pv |-> 0,           price |-> 30]
SmallDeficit == [load |-> Quantum,     pv |-> 0,           price |-> 10]
Balanced     == [load |-> 2 * Quantum, pv |-> 2 * Quantum, price |-> 20]

StepKinds == {Surplus, SmallSurplus, Deficit, SmallDeficit, Balanced}

\* Input series: a block of one or two timesteps repeated 1..MaxRep times,
\* and a few longer series taken once.
Blocks == {<<a>> : a \in StepKinds} \cup {<<a, b>> : a, b \in StepKinds}

LongBlocks ==
    { <<Surplus, Deficit, Deficit>>,
      <<Surplus, SmallDeficit, Deficit, Deficit>>,
      <<Deficit, Deficit, Surplus, Deficit, SmallDeficit>>,
      <<SmallDeficit, Surplus, Surplus, Deficit, Balanced, SmallSurplus, Deficit>>,
      <<Balanced, Surplus, Balanced, Surplus, Deficit>>,
      <<Balanced, Surplus, Balanced, Surplus, Deficit, Surplus, Deficit>> }

Repeat(b, k) == [t \in 0 .. (Len(b) * k - 1) |-> b[(t % Len(b)) + 1]]

Series ==
    {Repeat(b, k) : b \in Blocks, k \in 1 .. MaxRep}
        \cup {Repeat(b, 1) : b \in LongBlocks}

\* an efficiency of 1 and one of 0.95, as fractions
One == [num |-> 1, den |-> 1]
NineteenTwentieths == [num |-> 19, den |-> 20]

\* Configurations: battery_mwh in MWh, battery_mw in Unit per step, soc
\* values in Unit per full battery.
Configs ==
    [battery_mwh : {0, 1, 2},
     battery_mw : {0, 2 * Quantum},
     eta_ch : {One},
     eta_dis : {One},
     soc_min : {Quantum},
     soc_max : {3 * Quantum},
     soc_ini : {Quantum, 3 * Quantum},
     excess_threshold_mwh : {Unit \div (1000 * 1000), Quantum}]

\* Scenario B: load = [1, 1, 1, 1, 1], production = [0, 0, 3, 0, 0],
\* price = [10, 20, 5, 30, 15], capacity 1, power limit 1, efficiencies
\* 0.95, soc_min 0.1, soc_max 0.9, soc_ini 0.1.
ScenarioBSeries ==
    LET pr == <<10, 20, 5, 30, 15>>
    IN  [t \in 0 .. 4 |-> [load |-> Unit,
                           pv |-> IF t = 2 THEN 3 * Unit ELSE 0,
                           price |-> pr[t + 1]]]

ScenarioBConfig ==
    [battery_mwh |-> 1,
     battery_mw |-> Unit,
     eta_ch |-> NineteenTwentieths,
     eta_dis |-> NineteenTwentieths,
     soc_min |-> Unit \div 10,
     soc_max |-> 9 * (Unit \div 10),
     soc_ini |-> Unit \div 10,
     excess_threshold_mwh |-> Unit \div (1000 * 1000)]

----------------------------------------------------------------------------
(* Configuration reads, lines 24-32, 46, 61-62 *)

n_total == Cardinality(DOMAIN load)
cap == config.battery_mwh
pmax == config.battery_mw
eta_ch == config.eta_ch
eta_dis == config.eta_dis
soc_min == config.soc_min
soc_max == config.soc_max
soc_full_eps == Unit \div 10000
thr == config.excess_threshold_mwh
end_soc_target == soc_min
end_penalty == 2000
bonus_cents == 1
max_extend_steps == 10

(* Derived series, lines 41-43 *)
pv_to_load(t) == Min2(pv[t], load[t])
deficit(t) == Max2(load[t] - pv[t], 0)
excess_pv(t) == Max2(pv[t] - load[t], 0)

(* Candidates, lines 47-48 *)

\* a detector that also counts an excess equal to the threshold
has_excess_ge(t) == excess_pv(t) >= thr

has_excess(t) == excess_pv(t) > thr

\* a detector that forgets the shifted copy: every excess step is a candidate
prev_excess_none(t) == FALSE

\* np.r_[False, has_excess[:-1]]: has_excess shifted right by one step
prev_excess(t) == IF t = 0 THEN FALSE ELSE has_excess(t - 1)

CandSet == {t \in DOMAIN load : has_excess(t) /\ ~prev_excess(t)}

\* np.where returns the indices in increasing order: entry i is the element
\* of CandSet with exactly i smaller elements.
Candidates ==
    [i \in 0 .. (Cardinality(CandSet) - 1) |->
        CHOOSE t \in CandSet : Cardinality({u \in CandSet : u < t}) = i]

len_cand == Cardinality(DOMAIN cand)

----------------------------------------------------------------------------
(* solve_lp(t0, t1, soc0), lines 70-145.                                   *)
(*                                                                         *)
(* The linear program: variables ch_i in [0, ch_ub_i], dis_i in            *)
(* [0, dis_ub_i], slack >= 0; for every i the cumulative soc               *)
(* soc0 + sum_{j<=i}(ch_j*eta_ch - dis_j/eta_dis)/cap lies in              *)
(* [soc_min, soc_max]; soc_end - slack/cap <= end_soc_target; minimise     *)
(* sum(-bonus*w_i*ch_i - price_i*dis_i) + end_penalty*slack.               *)
(* Its constraint matrix is an interval matrix, so with bounds and         *)
(* the efficiencies folded into the variables every vertex is on the grid  *)
(* spanned by the right-hand sides (Grid below).                           *)
(* linprog is modelled by what it returns: failure exactly when the        *)
(* program is infeasible (it is never unbounded), else some optimal grid   *)
(* point; which optimum is the solver's choice.  The optimal value is      *)
(* computed by backward induction over the soc reached after each step.    *)
(* Costs are scaled to integers (StepCost, EndCost below).                 *)

ch_ub(t) == Min2(excess_pv(t), pmax)

\* a discharge bound that forgets the power limit
dis_ub_nolimit(t) == deficit(t)

dis_ub(t) == Min2(deficit(t), pmax)

\* x * eta and x / eta for an efficiency eta = num/den (x is a multiple of
\* den, respectively of num, wherever the model forms them)
TimesEta(x, e) == (x \div e.den) * e.num
OverEta(x, e) == (x \div e.num) * e.den

Abs(x) == IF x < 0 THEN 0 - x ELSE x

RECURSIVE GCD(_, _)
GCD(a, b) == IF b = 0 THEN a ELSE GCD(b, a % b)

RECURSIVE GcdOf(_)
GcdOf(S) ==
    IF S = {} THEN 0
    ELSE LET x == CHOOSE y \in S : TRUE
         IN  GCD(x, GcdOf(S \ {x}))

\* The right-hand sides of the program in stored energy: the bounds (stored
\* charge ch*eta_ch, withdrawn energy dis/eta_dis) and b1, b2, b_end times cap
RhsValues(t0, n, soc0) ==
    {TimesEta(ch_ub(t), eta_ch) : t \in t0 .. (t0 + n - 1)}
        \cup {OverEta(dis_ub(t), eta_dis) : t \in t0 .. (t0 + n - 1)}
        \cup {Abs(cap * (soc_max - soc0)), Abs(cap * (soc0 - soc_min)),
              Abs(cap * (end_soc_target - soc0))}

\* The grid of the window: every vertex of the program is an integer
\* combination of its right-hand sides, so a multiple of their gcd
Grid(t0, n, soc0) == GcdOf(RhsValues(t0, n, soc0))

\* the charge and the discharge that move one grid step of stored energy
GridC(G) == OverEta(G, eta_ch)
GridD(G) == TimesEta(G, eta_dis)

GridUpTo(ub, step) == {q * step : q \in 0 .. (ub \div step)}

\* bounds: the box of the decision pair of step t
Bounds(t, G) ==
    {[c |-> c, d |-> d] : c \in GridUpTo(ch_ub(t), GridC(G)),
                          d \in GridUpTo(dis_ub(t), GridD(G))}

\* one row of A_soc: the soc change of one step, without clipping
SocDelta(c, d) == (TimesEta(c, eta_ch) - OverEta(d, eta_dis)) \div cap

LevelStep(G) == G \div cap

\* soc values satisfying soc_min <= soc <= soc_max (rows A1, A2)
Levels(soc0, G) ==
    {s \in {soc0 + j * LevelStep(G) :
              j \in ((soc_min - soc0) \div LevelStep(G) - 1)
                      .. ((soc_max - soc0) \div LevelStep(G) + 1)} :
        soc_min <= s /\ s <= soc_max}

\* w = linspace(1, 0, n) is WNum/WDen
WNum(n, i) == IF n = 1 THEN 1 ELSE n - 1 - i
WDen(n) == IF n = 1 THEN 1 ELSE n - 1

\* Costs are counted per grid step and scaled to integers: by 100 * WDen(n)
\* and by eta_ch.num * eta_dis.den, less the factor CostDiv common to all
CostDiv == GCD(100, eta_ch.den * eta_dis.den)

\* an objective that values every discharged MWh the same, whatever its price
StepCost_flat(t0, n, i, x, G) ==
    0 - bonus_cents * WNum(n, i) * ((eta_ch.den * eta_dis.den) \div CostDiv)
          * (x.c \div GridC(G))
      - (100 \div CostDiv) * WDen(n) * (eta_ch.num * eta_dis.num)
          * (x.d \div GridD(G))

\* objective vector c: -bonus * w_i per MWh charged, -price_i per MWh
\* discharged
StepCost(t0, n, i, x, G) ==
    0 - bonus_cents * WNum(n, i) * ((eta_ch.den * eta_dis.den) \div CostDiv)
          * (x.c \div GridC(G))
      - (100 \div CostDiv) * WDen(n) * price[t0 + i] * (eta_ch.num * eta_dis.num)
          * (x.d \div GridD(G))

\* the least slack_end the soft end constraint allows, and its cost
EndSlack(s) == Max2(cap * (s - end_soc_target), 0)
EndCost(n, s, G) ==
    (100 \div CostDiv) * end_penalty * WDen(n) * (eta_ch.num * eta_dis.den)
        * (EndSlack(s) \div G)

SetMin(S) == CHOOSE m \in S : \A y \in S : m <= y

\* V_n: the cost of the end penalty alone, for every admissible end soc
EndTable(n, soc0, G) == [s \in Levels(soc0, G) |-> EndCost(n, s, G)] @@ << >>

\* V_k from V_{k+1} = nxt.  V_k[s] is the least cost of steps k..n-1 plus the
\* end penalty from soc s before step k; s is in DOMAIN V_k exactly when the
\* remaining steps are feasible from s.  Before step 0 the soc is soc0.
StepTable(t0, n, soc0, k, nxt, G) ==
    LET from == IF k = 0 THEN {soc0} ELSE Levels(soc0, G)
        ok(s) == {x \in Bounds(t0 + k, G) : (s + SocDelta(x.c, x.d)) \in DOMAIN nxt}
    IN  [s \in {y \in from : ok(y) # {}} |->
            SetMin({StepCost(t0, n, k, x, G) + nxt[s + SocDelta(x.c, x.d)] : x \in ok(s)})]
        @@ << >>

\* <<V_a, ..., V_{b-1}>> given V_b = Vb (a < b), by halving the range.  The
\* test on Len(right) has TLC finish the later half before it starts on the
\* earlier one, which keeps the depth of evaluation logarithmic.
RECURSIVE TablesBetween(_, _, _, _, _, _, _)
TablesBetween(t0, n, soc0, a, b, Vb, G) ==
    IF b - a = 1
    THEN << StepTable(t0, n, soc0, a, Vb, G) >>
    ELSE LET mid == (a + b) \div 2
             right == TablesBetween(t0, n, soc0, mid, b, Vb, G)
         IN  IF Len(right) = b - mid
             THEN TablesBetween(t0, n, soc0, a, mid, right[1], G) \o right
             ELSE << >>

\* <<V_0, ..., V_n>> for the window of n >= 1 steps starting at t0
ValueTables(t0, n, soc0, G) ==
    LET Vn == EndTable(n, soc0, G)
    IN  IF DOMAIN Vn = Levels(soc0, G)
        THEN TablesBetween(t0, n, soc0, 0, n, Vn, G) \o << Vn >>
        ELSE << >>

\* The decisions of step k that an optimal solution can take from soc s
BestAt(tabs, t0, n, k, s, G) ==
    {x \in Bounds(t0 + k, G) :
        /\ (s + SocDelta(x.c, x.d)) \in DOMAIN tabs[k + 2]
        /\ StepCost(t0, n, k, x, G) + tabs[k + 2][s + SocDelta(x.c, x.d)] = tabs[k + 1][s]}

\* The optimal decision sequences for steps a..b-1 (a < b) from soc s, each
\* with the soc it ends at; tabs = <<V_0, ..., V_n>>.
RECURSIVE OptimalBetween(_, _, _, _, _, _, _)
OptimalBetween(tabs, t0, n, a, b, s, G) ==
    IF b - a = 1
    THEN {[x |-> <<d>>, s |-> s + SocDelta(d.c, d.d)] : d \in BestAt(tabs, t0, n, a, s, G)}
    ELSE LET mid == (a + b) \div 2
         IN  UNION {{[x |-> p.x \o q.x, s |-> q.s] :
                        q \in OptimalBetween(tabs, t0, n, mid, b, p.s, G)} :
                      p \in OptimalBetween(tabs, t0, n, a, mid, s, G)}

\* linprog(c, A_ub, b_ub, bounds): the results it may return
linprog(t0, n, soc0) ==
    LET G == Grid(t0, n, soc0)
        tabs == IF G > 0 THEN ValueTables(t0, n, soc0, G) ELSE << >>
    IN  IF tabs = << >> \/ soc0 \notin DOMAIN tabs[1]
        THEN {[success |-> FALSE, x |-> << >>]}
        ELSE {[success |-> TRUE, x |-> p.x] : p \in OptimalBetween(tabs, t0, n, 0, n, soc0, G)}

Zeros(n) == [i \in 0 .. (n - 1) |-> 0]

\* solve_lp for cap # 0: the (ch, dis) pairs it may return, with res.success
solve_lp(t0, t1, soc0) ==
    LET n == t1 - t0
    IN  IF n <= 0
        THEN {[success |-> TRUE, ch |-> Zeros(0), dis |-> Zeros(0)]}
        ELSE {IF ~r.success
              THEN [success |-> FALSE, ch |-> Zeros(n), dis |-> Zeros(n)]
              ELSE [success |-> TRUE,
                    ch |-> [i \in 0 .. (n - 1) |-> r.x[i + 1].c],
                    dis |-> [i \in 0 .. (n - 1) |-> r.x[i + 1].d]] :
                 r \in linprog(t0, n, soc0)}

----------------------------------------------------------------------------
(* simular, lines 5-275 *)

Clip(x, lo, hi) == IF x < lo THEN lo ELSE IF x > hi THEN hi ELSE x

\* lines 195-196 and 230-231: one step of the soc reconstruction
SocStep(s, c, d) ==
    Clip(s + (TimesEta(c, eta_ch) - OverEta(d, eta_dis)) \div cap, soc_min, soc_max)

\* lines 192-198: soc after replaying steps i..m-1 of (chv, disv) from s
\* (the loop, unrolled by halving the range; the test on half has TLC finish
\* the first half before the second, every soc it yields being clipped)
RECURSIVE ReplaySoc(_, _, _, _, _)
ReplaySoc(chv, disv, s, i, m) ==
    IF i >= m THEN s
    ELSE IF m - i = 1 THEN SocStep(s, chv[i], disv[i])
    ELSE LET mid == (i + m) \div 2
             half == ReplaySoc(chv, disv, s, i, mid)
         IN  IF half >= soc_min
             THEN ReplaySoc(chv, disv, half, mid, m)
             ELSE half

\* lines 153-155: where the while loop stops when started at p: the first
\* index >= p that is len(cand) or whose soc buffer entry is not "full"
FirstNotFull(p) ==
    SetMin({q \in p .. len_cand :
              q = len_cand \/ soc[cand[q]] < soc_max - soc_full_eps})

\* lines 241-242: where the while loop stops when started at ci (ci may
\* already be past len(cand))
SkipBefore(ci, cur) ==
    IF ci >= len_cand THEN ci
    ELSE SetMin({q \in ci .. len_cand : q = len_cand \/ cand[q] >= cur})

\* a scan that restarts at the first candidate instead of at cand_idx
ScanStart_fromzero(sb, j0) ==
    LET hits == {j \in 0 .. (len_cand - 1) : sb[cand[j]] < soc_max - soc_full_eps}
    IN  IF hits = {} THEN 0 - 1 ELSE SetMin(hits)

\* lines 246-256: index j of the next cycle start as read from the soc
\* buffer sb, scanning from j0; -1 when the scan finds none (found = False)
ScanStart(sb, j0) ==
    LET hits == {j \in j0 .. (len_cand - 1) : sb[cand[j]] < soc_max - soc_full_eps}
    IN  IF hits = {} THEN 0 - 1 ELSE SetMin(hits)

\* lines 178-181 and 213-216
TentativeEnd(ci) == IF ci < len_cand THEN cand[ci] ELSE n_total

NoResult == [returned |-> FALSE, pv_to_load |-> << >>, batt_charge |-> << >>,
             batt_discharge |-> << >>, grid_import |-> << >>,
             curtail |-> << >>, soc |-> << >>]

Steps0 == DOMAIN load

\* a buffer that keeps whatever the memory it is given holds (np.empty)
FreshSoc_empty(mem) == [j \in DOMAIN mem |-> IF j = 0 THEN config.soc_ini ELSE mem[j]]

\* lines 34-35: np.zeros(n_total + 1) with soc[0] = soc_ini, whatever the
\* memory mem it is allocated in held before
FreshSoc(mem) == [j \in DOMAIN mem |-> IF j = 0 THEN config.soc_ini ELSE 0]

\* line 137 with a solver that is a function of its problem: the answer it
\* gave before for the same (t0, t1, soc0), else any answer it may give
Solver(t0, t1, soc0) ==
    IF <<t0, t1, soc0>> \in DOMAIN answers
    THEN {answers[<<t0, t1, soc0>>]}
    ELSE solve_lp(t0, t1, soc0)

Init ==
    /\ \E ser \in Series \cup {ScenarioBSeries} :
          /\ config \in IF ser = ScenarioBSeries THEN {ScenarioBConfig} ELSE Configs
          /\ load = [t \in DOMAIN ser |-> ser[t].load]
          /\ pv = [t \in DOMAIN ser |-> ser[t].pv]
          /\ price = [t \in DOMAIN ser |-> ser[t].price]
    /\ cand = Candidates
    /\ soc = FreshSoc([j \in 0 .. n_total |-> 0])
    /\ batt_charge = [t \in Steps0 |-> 0]
    /\ batt_discharge = [t \in Steps0 |-> 0]
    /\ grid_import = [t \in Steps0 |-> 0]
    /\ curtail = [t \in Steps0 |-> 0]
    /\ start_ptr = 0 /\ t_start = 0 /\ current = 0 /\ cand_idx = 0
    /\ t_end = 0 /\ steps = 0
    /\ ch = Zeros(0) /\ dis = Zeros(0)
    /\ soc_at_end = 0 /\ has_space = FALSE
    /\ res = NoResult
    /\ pc = "start"
    /\ lp_success = TRUE
    /\ nsolves = 0
    /\ written = {0}
    /\ soc_carried = config.soc_ini
    /\ cyc_start = 0
    /\ cycle_solves = 0
    /\ writes = [t \in Steps0 |-> 0]
    /\ windows = {}
    /\ answers = << >>
    /\ run = 1
    /\ res1 = NoResult

inputs == <<config, load, pv, price, cand>>

\* lines 51-59: no candidate, return the passive result at once
NoCandidates ==
    /\ pc = "start"
    /\ len_cand = 0
    /\ res' = [returned |-> TRUE,
               pv_to_load |-> [t \in Steps0 |-> pv_to_load(t)],
               batt_charge |-> [t \in Steps0 |-> 0],
               batt_discharge |-> [t \in Steps0 |-> 0],
               grid_import |-> [t \in Steps0 |-> deficit(t)],
               curtail |-> [t \in Steps0 |-> 0],
               soc |-> [t \in Steps0 |-> soc[0]]]
    /\ writes' = [t \in Steps0 |-> writes[t] + 1]
    /\ pc' = "done"
    /\ UNCHANGED <<inputs, soc, batt_charge, batt_discharge, grid_import,
                   curtail, start_ptr, t_start, current, cand_idx, t_end,
                   steps, ch, dis, soc_at_end, has_space, lp_success,
                   nsolves, written, soc_carried, cyc_start, cycle_solves,
                   windows, answers, run, res1>>

\* lines 153-174: choose the first cycle start, simulate the steps before it
\* passively, set current and cand_idx
PreCycle ==
    /\ pc = "start"
    /\ len_cand > 0
    /\ LET p == FirstNotFull(0)
           sp == IF p >= len_cand THEN 0 ELSE p
           ts == cand[sp]
       IN  /\ start_ptr' = sp
           /\ t_start' = ts
           /\ batt_charge' = [t \in Steps0 |-> IF t < ts THEN 0 ELSE batt_charge[t]]
           /\ batt_discharge' = [t \in Steps0 |-> IF t < ts THEN 0 ELSE batt_discharge[t]]
           /\ grid_import' = [t \in Steps0 |-> IF t < ts THEN deficit(t) ELSE grid_import[t]]
           /\ curtail' = [t \in Steps0 |-> IF t < ts THEN excess_pv(t) ELSE curtail[t]]
           /\ soc' = [j \in 0 .. n_total |-> IF 1 <= j /\ j <= ts THEN soc[0] ELSE soc[j]]
           /\ written' = written \cup (1 .. ts)
           /\ writes' = [t \in Steps0 |-> IF t < ts THEN writes[t] + 1 ELSE writes[t]]
           /\ current' = ts
           /\ cand_idx' = sp + 1
    /\ pc' = "cycle"
    /\ UNCHANGED <<inputs, t_end, steps, ch, dis, soc_at_end, has_space, res,
                   lp_success, nsolves, soc_carried, cyc_start, cycle_solves,
                   windows, answers, run, res1>>

\* lines 176-186: top of the cycle loop (current < n_total always holds
\* here: current is a candidate index)
CycleBegin ==
    /\ pc = "cycle"
    /\ current < n_total
    /\ t_end' = TentativeEnd(cand_idx)
    /\ steps' = 0
    /\ cyc_start' = current
    /\ cycle_solves' = 0
    /\ pc' = "solve"
    /\ UNCHANGED <<inputs, soc, batt_charge, batt_discharge, grid_import,
                   curtail, start_ptr, t_start, current, cand_idx, ch, dis,
                   soc_at_end, has_space, res, lp_success, nsolves, written,
                   soc_carried, writes, windows, answers, run, res1>>

\* a headroom test that always succeeds
HasSpace_always(te, sae) == TRUE

\* lines 202-205
HasSpace(te, sae) ==
    IF te < n_total /\ has_excess(te)
    THEN sae < soc_max - soc_full_eps
    ELSE TRUE

\* an acceptance test without the extension cap
Accepts_nocap(hs, te, st) == hs \/ te = n_total

\* an acceptance test that never extends
Accepts_always(hs, te, st) == TRUE

\* line 207
Accepts(hs, te, st) == hs \/ te = n_total \/ st >= max_extend_steps

\* lines 188-209: one pass of the extension loop that ends in "break"
SolveAccept ==
    /\ pc = "solve"
    /\ cap # 0
    /\ \E r \in Solver(current, t_end, soc[current]) :
         LET sae == ReplaySoc(r.ch, r.dis, soc[current], 0, t_end - current)
             hs == HasSpace(t_end, sae)
         IN  /\ Accepts(hs, t_end, steps)
             /\ ch' = r.ch /\ dis' = r.dis
             /\ lp_success' = r.success
             /\ soc_at_end' = sae
             /\ has_space' = hs
             /\ answers' = (<<current, t_end, soc[current]>> :> r) @@ answers
    /\ nsolves' = nsolves + 1
    /\ cycle_solves' = cycle_solves + 1
    /\ pc' = "apply"
    /\ UNCHANGED <<inputs, soc, batt_charge, batt_discharge, grid_import,
                   curtail, start_ptr, t_start, current, cand_idx, t_end,
                   steps, res, written, soc_carried, cyc_start, writes,
                   windows, run, res1>>

\* lines 188-217: one pass of the extension loop that extends the horizon
SolveExtend ==
    /\ pc = "solve"
    /\ cap # 0
    /\ \E r \in Solver(current, t_end, soc[current]) :
         LET sae == ReplaySoc(r.ch, r.dis, soc[current], 0, t_end - current)
             hs == HasSpace(t_end, sae)
         IN  /\ ~Accepts(hs, t_end, steps)
             /\ ch' = r.ch /\ dis' = r.dis
             /\ lp_success' = r.success
             /\ soc_at_end' = sae
             /\ has_space' = hs
             /\ answers' = (<<current, t_end, soc[current]>> :> r) @@ answers
    /\ nsolves' = nsolves + 1
    /\ cycle_solves' = cycle_solves + 1
    /\ cand_idx' = cand_idx + 1
    /\ t_end' = TentativeEnd(cand_idx + 1)
    /\ steps' = steps + 1
    /\ pc' = "solve"
    /\ UNCHANGED <<inputs, soc, batt_charge, batt_discharge, grid_import,
                   curtail, start_ptr, t_start, current, res, written,
                   soc_carried, cyc_start, writes, windows, run, res1>>

\* line 110: eta_ch / cap with cap = 0.0 raises ZeroDivisionError inside
\* solve_lp (the window is never empty, so line 80 does not return first)
SolveRaise ==
    /\ pc = "solve"
    /\ cap = 0
    /\ t_end - current > 0
    /\ nsolves' = nsolves + 1
    /\ cycle_solves' = cycle_solves + 1
    /\ pc' = "error"
    /\ UNCHANGED <<inputs, soc, batt_charge, batt_discharge, grid_import,
                   curtail, start_ptr, t_start, current, cand_idx, t_end,
                   steps, ch, dis, soc_at_end, has_space, res, lp_success,
                   written, soc_carried, cyc_start, writes, windows, answers,
                   run, res1>>

InWindow(k) == current <= k /\ k < t_end

\* lines 220-238: apply the accepted decisions, advance current
Apply ==
    /\ pc = "apply"
    /\ batt_charge' = [k \in Steps0 |-> IF InWindow(k) THEN ch[k - current] ELSE batt_charge[k]]
    /\ batt_discharge' = [k \in Steps0 |-> IF InWindow(k) THEN dis[k - current] ELSE batt_discharge[k]]
    /\ grid_import' = [k \in Steps0 |-> IF InWindow(k) THEN deficit(k) - dis[k - current] ELSE grid_import[k]]
    /\ curtail' = [k \in Steps0 |-> IF InWindow(k) THEN excess_pv(k) - ch[k - current] ELSE curtail[k]]
    /\ soc' = [j \in 0 .. n_total |->
                 IF current < j /\ j <= t_end
                 THEN ReplaySoc(ch, dis, soc[current], 0, j - current)
                 ELSE soc[j]]
    /\ written' = written \cup ((current + 1) .. t_end)
    /\ writes' = [k \in Steps0 |-> IF InWindow(k) THEN writes[k] + 1 ELSE writes[k]]
    /\ windows' = windows \cup {<<current, t_end>>}
    /\ soc_carried' = ReplaySoc(ch, dis, soc[current], 0, t_end - current)
    /\ current' = t_end
    /\ pc' = "next"
    /\ UNCHANGED <<inputs, start_ptr, t_start, cand_idx, t_end, steps, ch,
                   dis, soc_at_end, has_space, res, lp_success, nsolves,
                   cyc_start, cycle_solves, answers, run, res1>>

\* lines 241-256, found = True: the next cycle starts at a later candidate
NextStart ==
    /\ pc = "next"
    /\ LET ci == SkipBefore(cand_idx, current)
           j == ScanStart(soc, ci)
       IN  /\ j >= 0
           /\ current' = cand[j]
           /\ cand_idx' = j + 1
    /\ pc' = "cycle"
    /\ UNCHANGED <<inputs, soc, batt_charge, batt_discharge, grid_import,
                   curtail, start_ptr, t_start, t_end, steps, ch, dis,
                   soc_at_end, has_space, res, lp_success, nsolves, written,
                   soc_carried, cyc_start, cycle_solves, writes, windows,
                   answers, run, res1>>

\* soc buffer after the passive loop of lines 260-265 run from index cur:
\* soc[t+1] = soc[t] for t = cur..n_total-1 copies sb[cur] forward
PassiveSoc(sb, cur) == [j \in DOMAIN sb |-> IF j > cur THEN sb[cur] ELSE sb[j]]

\* lines 241-275, found = False: simulate the rest passively and return
Post ==
    /\ pc = "next"
    /\ LET ci == SkipBefore(cand_idx, current)
           j == ScanStart(soc, ci)
           bc == [t \in Steps0 |-> IF t >= current THEN 0 ELSE batt_charge[t]]
           bd == [t \in Steps0 |-> IF t >= current THEN 0 ELSE batt_discharge[t]]
           gi == [t \in Steps0 |-> IF t >= current THEN deficit(t) ELSE grid_import[t]]
           cu == [t \in Steps0 |-> IF t >= current THEN excess_pv(t) ELSE curtail[t]]
           sb == PassiveSoc(soc, current)
       IN  /\ j < 0
           /\ cand_idx' = ci
           /\ batt_charge' = bc
           /\ batt_discharge' = bd
           /\ grid_import' = gi
           /\ curtail' = cu
           /\ soc' = sb
           /\ res' = [returned |-> TRUE,
                      pv_to_load |-> [t \in Steps0 |-> pv_to_load(t)],
                      batt_charge |-> bc,
                      batt_discharge |-> bd,
                      grid_import |-> gi,
                      curtail |-> cu,
                      soc |-> [t \in Steps0 |-> sb[t + 1]]]
    /\ written' = written \cup ((current + 1) .. n_total)
    /\ writes' = [t \in Steps0 |-> IF t >= current THEN writes[t] + 1 ELSE writes[t]]
    /\ pc' = "done"
    /\ UNCHANGED <<inputs, start_ptr, t_start, current, t_end, steps, ch, dis,
                   soc_at_end, has_space, lp_success, nsolves, soc_carried,
                   cyc_start, cycle_solves, windows, answers, run, res1>>

Next ==
    \/ NoCandidates
    \/ PreCycle
    \/ CycleBegin
    \/ SolveAccept
    \/ SolveExtend
    \/ SolveRaise
    \/ Apply
    \/ NextStart
    \/ Post

Spec == Init /\ [][Next]_vars

\* simular called a second time on the same df and config, by the same
\* process: every local and buffer is built anew (lines 23-67), the soc
\* buffer in memory that may be the first call's; the solver is the same
\* function of its problem
Rerun ==
    /\ pc = "done"
    /\ run = 1
    /\ run' = 2
    /\ res1' = res
    /\ soc' = FreshSoc(soc)
    /\ batt_charge' = [t \in Steps0 |-> 0]
    /\ batt_discharge' = [t \in Steps0 |-> 0]
    /\ grid_import' = [t \in Steps0 |-> 0]
    /\ curtail' = [t \in Steps0 |-> 0]
    /\ start_ptr' = 0 /\ t_start' = 0 /\ current' = 0 /\ cand_idx' = 0
    /\ t_end' = 0 /\ steps' = 0
    /\ ch' = Zeros(0) /\ dis' = Zeros(0)
    /\ soc_at_end' = 0 /\ has_space' = FALSE
    /\ res' = NoResult
    /\ pc' = "start"
    /\ lp_success' = TRUE
    /\ nsolves' = 0
    /\ written' = {0}
    /\ soc_carried' = config.soc_ini
    /\ cyc_start' = 0
    /\ cycle_solves' = 0
    /\ writes' = [t \in Steps0 |-> 0]
    /\ windows' = {}
    /\ UNCHANGED <<inputs, answers>>

NextTwoRuns ==
    \/ Next
    \/ Rerun

TwoRuns == Init /\ [][NextTwoRuns]_vars

----------------------------------------------------------------------------
(* Properties *)

Returned == pc = "done"

\* the configuration precondition of the soc claims
ValidSocConfig ==
    /\ soc_min <= config.soc_ini /\ config.soc_ini <= soc_max
    /\ soc_min < soc_max

\* a well-formed configuration: positive capacity, ordered soc limits
ValidConfig == cap > 0 /\ ValidSocConfig

NoSurplus == \A t \in Steps0 : excess_pv(t) <= thr

InCand(i) == \E k \in DOMAIN cand : cand[k] = i

\* C1: in the returned frame, at every timestep, grid_import equals deficit
\* minus batt_discharge and is not negative.
\* Stated for well-formed configurations (ValidConfig).
C1_GridImportBalance ==
    (Returned /\ ValidConfig) =>
        \A t \in Steps0 :
            /\ res.grid_import[t] = deficit(t) - res.batt_discharge[t]
            /\ res.grid_import[t] >= 0

\* C2: with soc_min <= soc_ini <= soc_max and soc_min < soc_max, every entry
\* of the returned soc column lies in [soc_min - eps, soc_max + eps].
\* Stated for well-formed configurations (ValidConfig).
C2_SocWithinLimits ==
    (Returned /\ ValidConfig) =>
        \A t \in Steps0 :
            /\ soc_min - soc_full_eps <= res.soc[t]
            /\ res.soc[t] <= soc_max + soc_full_eps

\* C3: whenever solve_lp is about to be called for a cycle, the starting soc
\* it is given, soc[current], is an entry an earlier phase wrote and equals
\* the soc the battery was left at by the previous accepted cycle (soc_ini
\* before the first cycle), passive steps leaving it unchanged.
\* Stated for well-formed configurations (ValidConfig).
C3_CycleStartsFromCarriedSoc ==
    (pc = "solve" /\ ValidConfig) => (current \in written /\ soc[current] = soc_carried)

\* C5: in the returned frame, at every timestep, curtail equals excess minus
\* batt_charge and is not negative.
\* Stated for well-formed configurations (ValidConfig).
C5_CurtailBalance ==
    (Returned /\ ValidConfig) =>
        \A t \in Steps0 :
            /\ res.curtail[t] = excess_pv(t) - res.batt_charge[t]
            /\ res.curtail[t] >= 0

\* C9: when linprog fails for a window, solve_lp returns two all-zero vectors
\* of the window's length, and once that window is applied the buffers over
\* it are those of an unused battery: no charge, no discharge, grid_import =
\* deficit, curtail = excess, and soc equal to the window's starting soc.
C9_FallbackIsPassive ==
    /\ (pc = "apply" /\ ~lp_success) =>
          (ch = Zeros(t_end - current) /\ dis = Zeros(t_end - current))
    /\ (pc = "next" /\ ~lp_success) =>
          \A k \in cyc_start .. (t_end - 1) :
              /\ batt_charge[k] = 0 /\ batt_discharge[k] = 0
              /\ grid_import[k] = deficit(k)
              /\ curtail[k] = excess_pv(k)
              /\ soc[k + 1] = soc[cyc_start]

\* C4: in the returned frame, at every timestep, 0 <= batt_charge <=
\* min(excess, power limit) and 0 <= batt_discharge <= min(deficit, power
\* limit).
C4_DecisionBounds ==
    Returned =>
        \A t \in Steps0 :
            /\ 0 <= res.batt_charge[t]
            /\ res.batt_charge[t] <= Min2(excess_pv(t), pmax)
            /\ 0 <= res.batt_discharge[t]
            /\ res.batt_discharge[t] <= Min2(deficit(t), pmax)

\* a returned run that charged at the power limit with more excess at hand
\* and discharged at the power limit against a larger deficit
C4_Witness ==
    /\ Returned /\ pmax > 0
    /\ \E t \in Steps0 : res.batt_charge[t] = pmax /\ excess_pv(t) > pmax
    /\ \E t \in Steps0 : res.batt_discharge[t] = pmax /\ deficit(t) > pmax

\* C6: if no excess exceeds the threshold, the solver is never invoked and
\* the returned frame has no charge or discharge, grid_import = deficit,
\* curtail = 0 and soc = soc_ini at every timestep.
C6_NoCandidatesPassive ==
    NoSurplus =>
        /\ nsolves = 0
        /\ pc \in {"start", "done"}
        /\ Returned =>
              \A t \in Steps0 :
                  /\ res.batt_charge[t] = 0 /\ res.batt_discharge[t] = 0
                  /\ res.grid_import[t] = deficit(t)
                  /\ res.curtail[t] = 0
                  /\ res.soc[t] = config.soc_ini

\* scenario A: load = [1, 1, 1] MWh, production = [0, 0, 0], returned with
\* grid_import = [1, 1, 1]
C6_Witness ==
    /\ Returned /\ n_total = 3
    /\ \A t \in Steps0 : load[t] = Unit /\ pv[t] = 0 /\ res.grid_import[t] = Unit

\* position of the run in a well-founded order: steps left after current,
\* then the statements of one cycle in program order
Rank ==
    LET K == max_extend_steps + 5
    IN  CASE pc = "start" -> (n_total + 1) * K
          [] pc = "next"  -> (n_total - current) * K + (max_extend_steps + 4)
          [] pc = "cycle" -> (n_total - current) * K + (max_extend_steps + 3)
          [] pc = "solve" -> (n_total - current) * K + (max_extend_steps + 2 - steps)
          [] pc = "apply" -> (n_total - current) * K + 1
          [] OTHER        -> 0 - 1

\* the statement at pc has a branch to take (exceptions are pc = "error")
CanStep ==
    \/ pc = "start"
    \/ pc = "cycle" /\ current < n_total /\ cand_idx <= len_cand
    \/ pc = "solve" /\ t_end <= n_total
                    /\ (cap # 0 => solve_lp(current, t_end, soc[current]) # {})
    \/ pc = "apply"
    \/ pc = "next"

\* C7 as stated: for every configuration, zero capacity included, simular
\* raises no error, makes at most (number of candidates) x
\* (max_extend_steps + 1) solve_lp calls, and every statement it runs brings
\* it closer to returning.
C7_TerminatesAnyCapacity ==
    /\ [](/\ pc # "error"
          /\ nsolves <= len_cand * (max_extend_steps + 1)
          /\ Returned \/ CanStep)
    /\ [][Rank' < Rank /\ Rank' >= 0 - 1]_vars

\* The same restricted to battery_mwh > 0 (a power limit of zero included):
\* the only run that does not return is the division by cap = 0.
TerminatesPositiveCapacity ==
    /\ [](cap > 0 => /\ pc # "error"
                     /\ nsolves <= len_cand * (max_extend_steps + 1)
                     /\ Returned \/ CanStep)
    /\ [][cap > 0 => (Rank' < Rank /\ Rank' >= 0 - 1)]_vars

\* a returned run with power limit 0 that went through a whole capped cycle
ZeroPowerCappedRun ==
    /\ Returned /\ cap > 0 /\ pmax = 0
    /\ nsolves > max_extend_steps + 1

\* C8: the extension counter never exceeds max_extend_steps; within a cycle
\* the solves made are the extensions made plus the accepted solve, so at
\* most max_extend_steps + 1.
C8_ExtensionsCapped ==
    /\ steps <= max_extend_steps
    /\ cycle_solves <= max_extend_steps + 1
    /\ pc = "solve" => cycle_solves = steps
    /\ pc \in {"apply", "next"} => cycle_solves = steps + 1

\* a window accepted at the cap with the battery still full at its end
C8_Witness ==
    /\ pc = "apply"
    /\ steps = max_extend_steps
    /\ t_end < n_total /\ ~has_space
    /\ soc_at_end >= soc_max - soc_full_eps

\* C10: index i is in the candidate list exactly when excess[i] > threshold
\* and (i = 0 or excess[i-1] <= threshold); the list is strictly increasing.
C10_CandidatesAreRisingEdges ==
    /\ \A i \in Steps0 :
          InCand(i) <=> (excess_pv(i) > thr /\ (i = 0 \/ excess_pv(i - 1) <= thr))
    /\ DOMAIN cand = 0 .. (len_cand - 1)
    /\ \A k \in DOMAIN cand : k > 0 => cand[k - 1] < cand[k]

\* two candidates, and an excess step inside a block that is no candidate
C10_Witness ==
    /\ len_cand >= 2
    /\ \E i \in Steps0 : excess_pv(i) > thr /\ ~InCand(i)

\* the candidates at which a battery held at soc_ini since the series start
\* has charging headroom
HeadroomCands == {k \in DOMAIN cand : config.soc_ini < soc_max - soc_full_eps}

\* C13: once the first cycle start is chosen it is the first candidate at
\* which the battery, passive at soc_ini since the series start, has headroom
\* (soc < soc_max - eps), and cand[0] if it is full at every candidate.
\* Stated for well-formed configurations (ValidConfig).
C13_FirstCycleStart ==
    (pc # "start" /\ len_cand > 0 /\ ValidConfig) =>
        t_start = IF HeadroomCands = {} THEN cand[0] ELSE cand[SetMin(HeadroomCands)]

\* the candidate after index te, or the series end if none remains
NextCandAfter(te) ==
    LET later == {cand[k] : k \in DOMAIN cand} \cap ((te + 1) .. n_total)
    IN  IF later = {} THEN n_total ELSE SetMin(later)

\* the solve made in this step left the battery full at a tentative end that
\* is a surplus-block start
FullAtEnd ==
    t_end < n_total /\ has_excess(t_end) /\ soc_at_end' >= soc_max - soc_full_eps

\* C14: a solve whose tentative end is a surplus-block start with replayed
\* soc >= soc_max - eps, made below the cap, moves the tentative end to the
\* next candidate (the series end if none remains) and leaves the cycle start,
\* the soc buffer and the output buffers as they were, so the re-solve starts
\* from the same index and soc; and the window is extended in no other case.
C14_ExtensionMergesWindow ==
    [][(pc = "solve" /\ cap # 0) =>
          /\ (FullAtEnd /\ steps < max_extend_steps) =>
                /\ pc' = "solve"
                /\ t_end' = NextCandAfter(t_end)
                /\ steps' = steps + 1
                /\ current' = current /\ cyc_start' = cyc_start
                /\ soc' = soc
                /\ batt_charge' = batt_charge /\ batt_discharge' = batt_discharge
                /\ grid_import' = grid_import /\ curtail' = curtail
                /\ writes' = writes /\ written' = written
          /\ pc' = "solve" => (FullAtEnd /\ steps < max_extend_steps)]_vars

\* a window extended to a further candidate and accepted there with the
\* headroom a discharge in the merged window made
C14_Witness ==
    /\ pc = "apply" /\ lp_success
    /\ steps = 1 /\ t_end < n_total /\ has_space
    /\ \E k \in DOMAIN dis : dis[k] > 0

\* C15: a window is applied only if the replayed soc at its end is
\* < soc_max - eps, or its end is the series length, or the extension counter
\* has reached the cap; and the soc the test used is the soc written to the
\* trajectory at index end.
C15_AcceptedOnlyWithReason ==
    /\ pc \in {"apply", "next"} =>
          \/ soc_at_end < soc_max - soc_full_eps
          \/ t_end = n_total
          \/ steps >= max_extend_steps
    /\ pc = "next" => soc[t_end] = soc_at_end

\* a window applied because the battery has headroom at its end, which is a
\* later candidate, after a discharge that made the headroom
C15_Witness ==
    /\ pc = "next" /\ lp_success
    /\ t_end < n_total /\ steps < max_extend_steps
    /\ soc_at_end < soc_max - soc_full_eps
    /\ soc[t_end] = soc_at_end
    /\ \E k \in Steps0 : batt_discharge[k] > 0

\* timestep t lies in an accepted cycle window
InAccepted(t) == \E w \in windows : w[1] <= t /\ t < w[2]

\* C16: in the returned frame every timestep outside the accepted windows is
\* passive (no charge, no discharge, grid_import = deficit, curtail = excess,
\* soc that of the preceding step, soc_ini before step 0), and every output
\* row has been written by exactly one phase.
\* Stated for well-formed configurations (ValidConfig).
C16_PassiveOutsideWindows ==
    (Returned /\ ValidConfig) =>
        \A t \in Steps0 :
            /\ writes[t] = 1
            /\ ~InAccepted(t) =>
                  /\ res.batt_charge[t] = 0 /\ res.batt_discharge[t] = 0
                  /\ res.grid_import[t] = deficit(t)
                  /\ res.curtail[t] = excess_pv(t)
                  /\ res.soc[t] = IF t = 0 THEN config.soc_ini ELSE res.soc[t - 1]

\* C17: every solve_lp call of the scheduler has a non-empty window; accepted
\* windows are non-empty and pairwise disjoint; a cycle starts at or after
\* the end of every window accepted before it; the candidate pointer never
\* decreases.
C17_CyclesAdvance ==
    /\ [](/\ pc = "solve" => t_end > current
          /\ \A w \in windows : w[1] < w[2]
          /\ \A w1, w2 \in windows : w1 # w2 => (w1[2] <= w2[1] \/ w2[2] <= w1[1])
          /\ pc \in {"cycle", "solve", "apply"} => \A w \in windows : w[2] <= current)
    /\ [][cand_idx' >= cand_idx]_vars

\* a third cycle about to be solved after two accepted windows
C17_Witness ==
    /\ pc = "solve" /\ cap # 0
    /\ Cardinality(windows) = 2
    /\ \E w \in windows : w[2] < current

\* C18: in the returned frame, at every timestep, soc[t] - soc[t-1] (soc_ini
\* before step 0) equals (batt_charge[t] * eta_ch - batt_discharge[t] /
\* eta_dis) / capacity: the clip changes no value and no soc is left unset.
\* Stated for well-formed configurations (ValidConfig).
C18_SocEnergyBalance ==
    (Returned /\ ValidConfig) =>
        \A t \in Steps0 :
            res.soc[t] - (IF t = 0 THEN config.soc_ini ELSE res.soc[t - 1])
                = SocDelta(res.batt_charge[t], res.batt_discharge[t])

\* C12: a second call of simular on the same series and configuration, with
\* a solver that answers the same problem the same way, returns a frame
\* identical to the first call's in batt_charge, batt_discharge, grid_import,
\* curtail and soc (and pv_to_load), and returns whenever the first call did.
C12_Deterministic ==
    run = 2 =>
        /\ pc # "error"
        /\ Returned =>
              /\ res.batt_charge = res1.batt_charge
              /\ res.batt_discharge = res1.batt_discharge
              /\ res.grid_import = res1.grid_import
              /\ res.curtail = res1.curtail
              /\ res.soc = res1.soc
              /\ res.pv_to_load = res1.pv_to_load

\* a second call that has returned after two or more cycles that charged and
\* discharged the battery
C12_Witness ==
    /\ run = 2 /\ Returned
    /\ Cardinality(windows) >= 2
    /\ \E t \in Steps0 : res.batt_charge[t] > 0
    /\ \E t \in Steps0 : res.batt_discharge[t] > 0

\* the input of the run is scenario B
IsScenarioB ==
    /\ config = ScenarioBConfig
    /\ n_total = 5
    /\ \A t \in Steps0 : /\ load[t] = ScenarioBSeries[t].load
                        /\ pv[t] = ScenarioBSeries[t].pv
                        /\ price[t] = ScenarioBSeries[t].price

\* the energy a battery at soc_ini can take up, as charge, and what that
\* charge c gives back, as discharge
HeadroomCharge == OverEta(cap * (soc_max - config.soc_ini), eta_ch)
Deliverable(c) ==
    TimesEta(TimesEta(c, eta_ch) + cap * (config.soc_ini - soc_min), eta_dis)

\* C11: in scenario B the only candidate is t = 2; the returned frame charges
\* only at t = 2, by min(excess, power limit, headroom); the discharge at
\* t = 3 (price 30) is all the deliverable energy up to the power limit, and
\* t = 4 (price 15) gets what is left, nothing unless t = 3 is at the power
\* limit; grid_import[3] = deficit[3] - batt_discharge[3] < deficit[3].
C11_ScenarioBPriority ==
    IsScenarioB =>
        /\ DOMAIN cand = {0} /\ cand[0] = 2
        /\ Returned =>
              /\ \A t \in Steps0 \ {2} : res.batt_charge[t] = 0
              /\ res.batt_charge[2] = Min2(Min2(excess_pv(2), pmax), HeadroomCharge)
              /\ res.batt_charge[2] > 0
              /\ \A t \in Steps0 \ {3, 4} : res.batt_discharge[t] = 0
              /\ res.batt_discharge[3] = Min2(pmax, Deliverable(res.batt_charge[2]))
              /\ res.batt_discharge[3] > 0
              /\ res.batt_discharge[4]
                    = Deliverable(res.batt_charge[2]) - res.batt_discharge[3]
              /\ res.batt_discharge[4] > 0 => res.batt_discharge[3] = pmax
              /\ res.grid_import[3] = deficit(3) - res.batt_discharge[3]
              /\ res.grid_import[3] < deficit(3)

\* scenario B returned, with the window [2, 5) solved once and applied
C11_Witness ==
    /\ IsScenarioB /\ Returned
    /\ windows = {<<2, 5>>} /\ nsolves = 1 /\ lp_success
    /\ res.batt_discharge[3] > 0

====
